---- MODULE Spec2Model ----
(***************************************************************************)
(* A model of the s3-demo console: the logs API route (SQS poll, SNS       *)
(* envelope unwrapping, severity classification), the S3 API route         *)
(* (upload, list, delete) and the LogsView polling loop.                   *)
(*                                                                         *)
(* Text is a sequence of one-character strings, so that substring,         *)
(* toUpperCase, toLowerCase, JSON.parse and JSON.stringify are computed    *)
(* character by character as the JavaScript runtime computes them.         *)
(***************************************************************************)
EXTENDS Integers, Sequences, FiniteSets, TLC

\* ------------------------------------------------------------------ text

Min(a, b) == IF a < b THEN a ELSE b

UpperChars == << "A","B","C","D","E","F","G","H","I","J","K","L","M",
                 "N","O","P","Q","R","S","T","U","V","W","X","Y","Z" >>

LowerChars == << "a","b","c","d","e","f","g","h","i","j","k","l","m",
                 "n","o","p","q","r","s","t","u","v","w","x","y","z" >>

DigitChars == << "0","1","2","3","4","5","6","7","8","9" >>

IndexIn(c, chars) ==
    IF \E i \in 1..Len(chars) : chars[i] = c
    THEN CHOOSE i \in 1..Len(chars) : chars[i] = c
    ELSE 0

\* String.prototype.toUpperCase / toLowerCase, one character.
UpperChar(c) == IF IndexIn(c, LowerChars) > 0 THEN UpperChars[IndexIn(c, LowerChars)] ELSE c
LowerChar(c) == IF IndexIn(c, UpperChars) > 0 THEN LowerChars[IndexIn(c, UpperChars)] ELSE c

ToUpperCase(s) == [i \in 1..Len(s) |-> UpperChar(s[i])]
ToLowerCase(s) == [i \in 1..Len(s) |-> LowerChar(s[i])]

\* String.prototype.substring(from, to) with 0-based from <= to, clamped to the length.
Substring(s, from, to) == SubSeq(s, from + 1, Min(to, Len(s)))

\* String.prototype.includes
Includes(s, sub) ==
    \E i \in 0..(Len(s) - Len(sub)) : SubSeq(s, i + 1, i + Len(sub)) = sub

\* String.prototype.split(sep).pop() for a one-character separator: the text
\* after the last occurrence of sep (the whole text when there is none).
LastIndexOf(s, sep) ==
    IF \E i \in 1..Len(s) : s[i] = sep
    THEN CHOOSE i \in 1..Len(s) : s[i] = sep /\ \A j \in (i + 1)..Len(s) : s[j] # sep
    ELSE 0

SplitPop(s, sep) == SubSeq(s, LastIndexOf(s, sep) + 1, Len(s))

\* Number to decimal text, as a template literal or String(n) prints it.
RECURSIVE NatToText(_)
NatToText(n) ==
    IF n < 10 THEN << DigitChars[n + 1] >>
    ELSE NatToText(n \div 10) \o << DigitChars[(n % 10) + 1] >>

IntToText(n) == IF n < 0 THEN << "-" >> \o NatToText(0 - n) ELSE NatToText(n)

Repeat(c, n) == [i \in 1..n |-> c]

\* ------------------------------------------------------- JavaScript values

\* Every value has the same four fields, so that values of different types
\* can be compared and stored together.
JUndef == [t |-> "undefined", s |-> << >>, n |-> 0, kv |-> << >>]
JNull == [t |-> "null", s |-> << >>, n |-> 0, kv |-> << >>]
JTrue == [t |-> "true", s |-> << >>, n |-> 0, kv |-> << >>]
JFalse == [t |-> "false", s |-> << >>, n |-> 0, kv |-> << >>]
JNum(n) == [t |-> "num", s |-> << >>, n |-> n, kv |-> << >>]
JStr(s) == [t |-> "str", s |-> s, n |-> 0, kv |-> << >>]
JObj(kv) == [t |-> "obj", s |-> << >>, n |-> 0, kv |-> kv]
KV(k, v) == [k |-> k, v |-> v]

\* ToBoolean: the test of `a || b` and of `!a`.
Truthy(v) ==
    CASE v.t = "undefined" -> FALSE
      [] v.t = "null" -> FALSE
      [] v.t = "false" -> FALSE
      [] v.t = "num" -> v.n # 0
      [] v.t = "str" -> v.s # << >>
      [] OTHER -> TRUE

\* a || b
Or(a, b) == IF Truthy(a) THEN a ELSE b

\* Property read v.key. Reading a property of null or undefined throws a
\* TypeError (see ReadThrows); a primitive has none of the keys read here.
RECURSIVE Lookup(_, _, _)
Lookup(kv, key, i) ==
    IF i = 0 THEN JUndef
    ELSE IF kv[i].k = key THEN kv[i].v
    ELSE Lookup(kv, key, i - 1)

Get(v, key) == IF v.t = "obj" THEN Lookup(v.kv, key, Len(v.kv)) ELSE JUndef

ReadThrows(v) == v.t \in {"null", "undefined"}

\* Assignment of a member while an object literal is parsed: a repeated key
\* keeps its first position and takes the last value.
Put(kv, key, val) ==
    IF \E i \in 1..Len(kv) : kv[i].k = key
    THEN [i \in 1..Len(kv) |-> IF kv[i].k = key THEN KV(key, val) ELSE kv[i]]
    ELSE Append(kv, KV(key, val))

\* ---------------------------------------------------------- JSON.stringify

\* The characters written with a backslash before them, and what follows it.
NeedsEscape(c) == c \in {"\"", "\\", "\n", "\t", "\r"}

EscapeLetter(c) ==
    CASE c = "\n" -> "n"
      [] c = "\t" -> "t"
      [] c = "\r" -> "r"
      [] OTHER -> c

\* Two slots per character, the first for its backslash; "" is an empty slot.
NonEmptySlot(c) == c # ""

QuoteBody(s) ==
    SelectSeq([p \in 1..(2 * Len(s)) |->
                  IF p % 2 = 1
                  THEN (IF NeedsEscape(s[(p + 1) \div 2]) THEN "\\" ELSE "")
                  ELSE EscapeLetter(s[p \div 2])],
              NonEmptySlot)

Quote(s) == << "\"" >> \o QuoteBody(s) \o << "\"" >>

RECURSIVE Stringify(_)
RECURSIVE StringifyMembers(_, _)
StringifyMembers(kv, i) ==
    IF i > Len(kv) THEN << >>
    ELSE (IF i > 1 THEN << "," >> ELSE << >>)
         \o Quote(kv[i].k) \o << ":" >> \o Stringify(kv[i].v)
         \o StringifyMembers(kv, i + 1)

Stringify(v) ==
    CASE v.t = "null" -> << "n","u","l","l" >>
      [] v.t = "true" -> << "t","r","u","e" >>
      [] v.t = "false" -> << "f","a","l","s","e" >>
      [] v.t = "num" -> IntToText(v.n)
      [] v.t = "str" -> Quote(v.s)
      [] v.t = "obj" -> << "{" >> \o StringifyMembers(v.kv, 1) \o << "}" >>
      [] OTHER -> << >>

\* String(v): what JSON.parse applies to an argument that is not a string.
ToStringJS(v) ==
    CASE v.t = "str" -> v.s
      [] v.t = "obj" -> << "[","o","b","j","e","c","t"," ","O","b","j","e","c","t","]" >>
      [] v.t = "undefined" -> << "u","n","d","e","f","i","n","e","d" >>
      [] OTHER -> Stringify(v)

\* -------------------------------------------------------------- JSON.parse

\* The JSON grammar without arrays, fractions, exponents and \b \f \u escapes
\* (no text of the model holds any of them); a text that is not of the grammar
\* makes JSON.parse throw a SyntaxError, which is ok = FALSE here.
ParseFail == [ok |-> FALSE, v |-> JUndef, i |-> 0]
ParseOk(v, i) == [ok |-> TRUE, v |-> v, i |-> i]

IsWs(c) == c \in {" ", "\t", "\n", "\r"}
IsDigit(c) == IndexIn(c, DigitChars) > 0

RECURSIVE SkipWs(_, _)
SkipWs(s, i) == IF i <= Len(s) /\ IsWs(s[i]) THEN SkipWs(s, i + 1) ELSE i

HasAt(s, i, lit) == i + Len(lit) - 1 <= Len(s) /\ SubSeq(s, i, i + Len(lit) - 1) = lit

Unescape(c) ==
    CASE c = "n" -> "\n"
      [] c = "t" -> "\t"
      [] c = "r" -> "\r"
      [] OTHER -> c

\* The number of backslashes that stand directly before position j, not
\* counting any before position i.
RunBefore(s, i, j) ==
    CHOOSE k \in 0..(j - i) :
        /\ \A m \in 1..k : s[j - m] = "\\"
        /\ (k = j - i \/ s[j - k - 1] # "\\")

\* Position j of a string literal that starts at i follows an escaping backslash.
Escaped(s, i, j) == RunBefore(s, i, j) % 2 = 1

ClosesAt(s, i, j) == s[j] = "\"" /\ ~Escaped(s, i, j)

KeptChar(m) == m.keep

\* The characters of a string literal from position i (after the opening
\* quote) to its closing quote.
ParseChars(s, i) ==
    IF ~\E j \in i..Len(s) : ClosesAt(s, i, j) THEN ParseFail
    ELSE LET close == CHOOSE j \in i..Len(s) :
                          ClosesAt(s, i, j) /\ \A h \in i..(j - 1) : ~ClosesAt(s, i, h)
             marks == [p \in 1..(close - i) |->
                          LET j == i + p - 1
                              esc == Escaped(s, i, j)
                          IN  [c |-> IF esc THEN Unescape(s[j]) ELSE s[j],
                               keep |-> esc \/ s[j] # "\\",
                               bad |-> IF esc
                                       THEN s[j] \notin {"\"", "\\", "/", "n", "t", "r"}
                                       ELSE s[j] \in {"\n", "\t", "\r"}]]
             kept == SelectSeq(marks, KeptChar)
         IN  IF \E p \in 1..Len(marks) : marks[p].bad THEN ParseFail
             ELSE ParseOk(JStr([p \in 1..Len(kept) |-> kept[p].c]), close + 1)

RECURSIVE ParseDigits(_, _, _)
ParseDigits(s, i, acc) ==
    IF i <= Len(s) /\ IsDigit(s[i])
    THEN ParseDigits(s, i + 1, 10 * acc + (IndexIn(s[i], DigitChars) - 1))
    ELSE ParseOk(JNum(acc), i)

\* -? (0 | [1-9][0-9]*)
ParseNumber(s, i) ==
    LET neg == s[i] = "-"
        j == IF neg THEN i + 1 ELSE i
    IN  IF j > Len(s) \/ ~IsDigit(s[j]) THEN ParseFail
        ELSE IF s[j] = "0" THEN ParseOk(JNum(0), j + 1)
        ELSE LET r == ParseDigits(s, j, 0)
             IN  ParseOk(JNum(IF neg THEN 0 - r.v.n ELSE r.v.n), r.i)

RECURSIVE ParseValue(_, _)
RECURSIVE ParseMembers(_, _, _)

\* Members of an object from position i, the opening quote of a key.
ParseMembers(s, i, kv) ==
    IF i > Len(s) \/ s[i] # "\"" THEN ParseFail
    ELSE LET key == ParseChars(s, i + 1)
         IN  IF ~key.ok THEN ParseFail
             ELSE LET c == SkipWs(s, key.i)
                  IN  IF c > Len(s) \/ s[c] # ":" THEN ParseFail
                      ELSE LET val == ParseValue(s, SkipWs(s, c + 1))
                           IN  IF ~val.ok THEN ParseFail
                               ELSE LET e == SkipWs(s, val.i)
                                        kv2 == Put(kv, key.v.s, val.v)
                                    IN  IF e > Len(s) THEN ParseFail
                                        ELSE IF s[e] = "}" THEN ParseOk(JObj(kv2), e + 1)
                                        ELSE IF s[e] = "," THEN ParseMembers(s, SkipWs(s, e + 1), kv2)
                                        ELSE ParseFail

ParseValue(s, i) ==
    IF i > Len(s) THEN ParseFail
    ELSE IF s[i] = "{" THEN
        LET j == SkipWs(s, i + 1)
        IN  IF j <= Len(s) /\ s[j] = "}" THEN ParseOk(JObj(<< >>), j + 1)
            ELSE ParseMembers(s, j, << >>)
    ELSE IF s[i] = "\"" THEN ParseChars(s, i + 1)
    ELSE IF s[i] = "-" \/ IsDigit(s[i]) THEN ParseNumber(s, i)
    ELSE IF HasAt(s, i, << "t","r","u","e" >>) THEN ParseOk(JTrue, i + 4)
    ELSE IF HasAt(s, i, << "f","a","l","s","e" >>) THEN ParseOk(JFalse, i + 5)
    ELSE IF HasAt(s, i, << "n","u","l","l" >>) THEN ParseOk(JNull, i + 4)
    ELSE ParseFail

\* JSON.parse(text): one value, with white space around it and nothing else.
\* (r ranges over the one result of ParseValue, so that it is computed once.)
JSONParse(s) ==
    CHOOSE res \in { IF r.ok /\ SkipWs(s, r.i) = Len(s) + 1 THEN r ELSE ParseFail :
                     r \in { ParseValue(s, SkipWs(s, 1)) } } : TRUE

\* ------------------------------------------------- logs route: classifier

\* Property names and literals of the handler.
MessageKey == << "M","e","s","s","a","g","e" >>
TimestampKey == << "T","i","m","e","s","t","a","m","p" >>
MessageIdKey == << "M","e","s","s","a","g","e","I","d" >>
MessageTextKey == << "m","e","s","s","a","g","e" >>
FunctionKey == << "f","u","n","c","t","i","o","n" >>
RequestIdKey == << "r","e","q","u","e","s","t","I","d" >>
LevelKey == << "l","e","v","e","l" >>
NoMessageContent == << "N","o"," ","m","e","s","s","a","g","e"," ","c","o","n","t","e","n","t" >>
UnknownText == << "u","n","k","n","o","w","n" >>

LevelINFO == << "I","N","F","O" >>
LevelWARN == << "W","A","R","N" >>
LevelERROR == << "E","R","R","O","R" >>

\* Mutant of determineLogLevel: the content search runs before the explicit level.
determineLogLevel_ContentFirst(message) ==
    IF ~Truthy(message) THEN LevelINFO
    ELSE LET lv == Get(message, LevelKey)
             level == IF lv.t = "str" THEN ToUpperCase(lv.s) ELSE << >>
             messageStr == ToLowerCase(Stringify(message))
         IN  IF \/ Includes(messageStr, << "e","r","r","o","r" >>)
                \/ Includes(messageStr, << "e","x","c","e","p","t","i","o","n" >>)
                \/ Includes(messageStr, << "f","a","i","l" >>)
             THEN LevelERROR
             ELSE IF Truthy(lv) /\ (level = LevelERROR \/ level = LevelWARN \/ level = LevelINFO)
             THEN level
             ELSE IF Includes(messageStr, << "w","a","r","n" >>) \/ Includes(messageStr, << "c","a","u","t","i","o","n" >>)
             THEN LevelWARN
             ELSE LevelINFO

\* Mutant of determineLogLevel: the WARN words are searched before the ERROR words.
determineLogLevel_WarnFirst(message) ==
    IF ~Truthy(message) THEN LevelINFO
    ELSE LET lv == Get(message, LevelKey)
             level == IF lv.t = "str" THEN ToUpperCase(lv.s) ELSE << >>
             messageStr == ToLowerCase(Stringify(message))
         IN  IF Truthy(lv) /\ (level = LevelERROR \/ level = LevelWARN \/ level = LevelINFO)
             THEN level
             ELSE IF Includes(messageStr, << "w","a","r","n" >>) \/ Includes(messageStr, << "c","a","u","t","i","o","n" >>)
             THEN LevelWARN
             ELSE IF \/ Includes(messageStr, << "e","r","r","o","r" >>)
                     \/ Includes(messageStr, << "e","x","c","e","p","t","i","o","n" >>)
                     \/ Includes(messageStr, << "f","a","i","l" >>)
             THEN LevelERROR
             ELSE LevelINFO

\* function determineLogLevel(message): 'INFO' | 'WARN' | 'ERROR'
determineLogLevel(message) ==
    IF ~Truthy(message) THEN LevelINFO
    ELSE LET lv == Get(message, LevelKey)
             level == IF lv.t = "str" THEN ToUpperCase(lv.s) ELSE << >>
             messageStr == ToLowerCase(Stringify(message))
         IN  IF Truthy(lv) /\ (level = LevelERROR \/ level = LevelWARN \/ level = LevelINFO)
             THEN level
             ELSE IF \/ Includes(messageStr, << "e","r","r","o","r" >>)
                     \/ Includes(messageStr, << "e","x","c","e","p","t","i","o","n" >>)
                     \/ Includes(messageStr, << "f","a","i","l" >>)
             THEN LevelERROR
             ELSE IF Includes(messageStr, << "w","a","r","n" >>) \/ Includes(messageStr, << "c","a","u","t","i","o","n" >>)
             THEN LevelWARN
             ELSE LevelINFO

\* ---------------------------------------------------- logs route: handler

\* new Date().toISOString() at clock reading t (the date part is left out).
ISOString(t) == << "T" >> \o NatToText(t) \o << "Z" >>

\* Mutant of Placeholder: the index is left out.
Placeholder_NoIndex(n) == << "m","s","g","-" >>

\* `msg-${logs.length}`
Placeholder(n) == << "m","s","g","-" >> \o NatToText(n)

\* message.Body.substring(0, 100)
ExcerptLen == 100

\* MaxNumberOfMessages of the receive command
MaxNumberOfMessages == 10

LogEntry(id, timestamp, level, message, lambdaFunction, requestId) ==
    [id |-> id, timestamp |-> timestamp, level |-> level, message |-> message,
     lambdaFunction |-> lambdaFunction, requestId |-> requestId]

\* The default '{}' of both JSON.parse calls.
EmptyObjectText == << "{", "}" >>

\* ------------------------------------------------ inputs: queue messages

SqsMessage(id, body) == [MessageId |-> id, Body |-> body]

Envelope(kv) == JStr(Stringify(JObj(kv)))
Payload(kv) == JStr(Stringify(JObj(kv)))

\* {"Message":"{\"level\":\"warn\",...}","Timestamp":"2023-01-01T00:00:00Z","MessageId":"sns-1"}
BodyFull ==
    Envelope(<< KV(MessageKey,
                   Payload(<< KV(LevelKey, JStr(<< "w","a","r","n" >>)),
                              KV(MessageTextKey, JStr(<< "d","i","s","k"," ","e","r","r","o","r" >>)),
                              KV(FunctionKey, JStr(<< "r","e","s","i","z","e" >>)),
                              KV(RequestIdKey, JStr(<< "r","1" >>)) >>)),
                KV(TimestampKey, JStr(<< "2","0","2","3","-","0","1","-","0","1","T","0","0",":","0","0",":","0","0","Z" >>)),
                KV(MessageIdKey, JStr(<< "s","n","s","-","1" >>)) >>)

\* An envelope whose Message is plain text, not JSON.
BodyPlainInner ==
    Envelope(<< KV(MessageKey, JStr(<< "u","p","l","o","a","d"," ","d","o","n","e" >>)),
                KV(TimestampKey, JStr(<< "2","0","2","3","-","0","1","-","0","2","T","0","0",":","0","0",":","0","0","Z" >>)),
                KV(MessageIdKey, JStr(<< "s","n","s","-","2" >>)) >>)

\* A payload without level, message, function and requestId; no Timestamp.
BodySparse ==
    Envelope(<< KV(MessageKey, Payload(<< KV(<< "d","e","t","a","i","l" >>, JStr(<< "N","u","l","l","P","o","i","n","t","e","r","E","x","c","e","p","t","i","o","n" >>)) >>)),
                KV(MessageIdKey, JStr(<< "s","n","s","-","3" >>)) >>)

\* Fields that are there and falsy: "" and 0.
BodyFalsy ==
    Envelope(<< KV(MessageKey,
                   Payload(<< KV(LevelKey, JStr(<< "d","e","b","u","g" >>)),
                              KV(MessageTextKey, JStr(<< >>)),
                              KV(FunctionKey, JStr(<< >>)),
                              KV(RequestIdKey, JNum(0)) >>)),
                KV(TimestampKey, JStr(<< >>)),
                KV(MessageIdKey, JStr(<< >>)) >>)

BodyNull == JStr(<< "n","u","l","l" >>)
BodyInnerNull == Envelope(<< KV(MessageKey, JStr(<< "n","u","l","l" >>)) >>)
BodyNotJson == JStr(<< "o","o","p","s",","," ","n","o","t"," ","j","s","o","n" >>)
BodyLongNotJson == JStr(<< "<","l","o","g",">" >> \o Repeat("x", ExcerptLen) \o << "<","/","l","o","g",">" >>)

Messages ==
    { SqsMessage(JStr(<< "a","1" >>), BodyFull),
      SqsMessage(JUndef, BodyNotJson),
      SqsMessage(JStr(<< "m","s","g","-","1" >>), BodyPlainInner),
      SqsMessage(JUndef, JUndef),
      SqsMessage(JStr(<< "a","2" >>), BodyLongNotJson),
      SqsMessage(JStr(<< "a","3" >>), BodySparse),
      SqsMessage(JUndef, BodyFalsy),
      SqsMessage(JStr(<< "a","4" >>), BodyNull),
      SqsMessage(JStr(<< "a","5" >>), BodyInnerNull),
      SqsMessage(JStr(<< >>), JStr(<< >>)) }

\* ---------------------------------------------- logs route: the loop body

\* const body = JSON.parse(message.Body || '{}')
OuterParse(message) == JSONParse(ToStringJS(Or(message.Body, JStr(EmptyObjectText))))

\* const snsMessage = JSON.parse(body.Message || '{}')
InnerParse(body) == JSONParse(ToStringJS(Or(Get(body, MessageKey), JStr(EmptyObjectText))))

\* The two parses of the try block: outer is the first, inner the second,
\* which is reached when the first succeeds and body.Message can be read.
UnwrapCompute(message) ==
    CHOOSE u \in { [outer |-> o,
                    inner |-> IF o.ok /\ ~ReadThrows(o.v) THEN InnerParse(o.v) ELSE ParseFail] :
                   o \in { OuterParse(message) } } : TRUE

\* The two parses of every message of the input set, computed once.
UnwrapTable == [m \in Messages |-> UnwrapCompute(m)]

Unwrap(message) == UnwrapTable[message]

\* Whether the try block throws, given its two parses u: the outer
\* JSON.parse, the read body.Message, the inner JSON.parse, or the read
\* snsMessage.message.
TryThrows(u) ==
    \/ ~u.outer.ok
    \/ ReadThrows(u.outer.v)
    \/ ~u.inner.ok
    \/ ReadThrows(u.inner.v)

\* Mutant of TryEntry: the envelope's fields come before the payload's.
TryEntry_EnvelopeFirst(message, body, snsMessage, n, t) ==
    LogEntry(Or(message.MessageId, JStr(Placeholder(n))),
             Or(Get(body, TimestampKey), JStr(ISOString(t))),
             determineLogLevel(snsMessage),
             Or(Or(Get(body, MessageKey), Get(snsMessage, MessageTextKey)),
                JStr(NoMessageContent)),
             Or(Get(snsMessage, FunctionKey), JStr(UnknownText)),
             Or(Or(Get(body, MessageIdKey), Get(snsMessage, RequestIdKey)),
                JStr(UnknownText)))

\* The entry pushed by the try block; n is logs.length, t the clock.
TryEntry(message, body, snsMessage, n, t) ==
    LogEntry(Or(message.MessageId, JStr(Placeholder(n))),
             Or(Get(body, TimestampKey), JStr(ISOString(t))),
             determineLogLevel(snsMessage),
             Or(Or(Get(snsMessage, MessageTextKey), Get(body, MessageKey)),
                JStr(NoMessageContent)),
             Or(Get(snsMessage, FunctionKey), JStr(UnknownText)),
             Or(Or(Get(snsMessage, RequestIdKey), Get(body, MessageIdKey)),
                JStr(UnknownText)))

\* Mutant of CatchEntry: the raw body is not cut to its first 100 characters.
CatchEntry_WholeBody(message, n, t) ==
    LogEntry(Or(message.MessageId, JStr(Placeholder(n))),
             JStr(ISOString(t)),
             LevelERROR,
             JStr(<< "E","r","r","o","r"," ","p","a","r","s","i","n","g"," ","m","e","s","s","a","g","e",":"," " >>
                  \o (IF Truthy(message.Body)
                      THEN message.Body.s \o << ".",".","." >>
                      ELSE << "N","o"," ","c","o","n","t","e","n","t" >>)),
             JStr(<< "p","a","r","s","e","r" >>),
             Or(message.MessageId, JStr(UnknownText)))

\* The entry pushed by the catch block.
CatchEntry(message, n, t) ==
    LogEntry(Or(message.MessageId, JStr(Placeholder(n))),
             JStr(ISOString(t)),
             LevelERROR,
             JStr(<< "E","r","r","o","r"," ","p","a","r","s","i","n","g"," ","m","e","s","s","a","g","e",":"," " >>
                  \o (IF Truthy(message.Body)
                      THEN Substring(message.Body.s, 0, ExcerptLen) \o << ".",".","." >>
                      ELSE << "N","o"," ","c","o","n","t","e","n","t" >>)),
             JStr(<< "p","a","r","s","e","r" >>),
             Or(message.MessageId, JStr(UnknownText)))

\* Mutant of LoopBody: a message that fails to parse is skipped.
LoopBody_SkipOnError(logs, message, t) ==
    CHOOSE out \in { IF TryThrows(u)
                     THEN logs
                     ELSE Append(logs, TryEntry(message, u.outer.v, u.inner.v, Len(logs), t)) :
                     u \in { Unwrap(message) } } : TRUE

\* One iteration of `for (const message of response.Messages)`.
LoopBody(logs, message, t) ==
    CHOOSE out \in { IF TryThrows(u)
                     THEN Append(logs, CatchEntry(message, Len(logs), t))
                     ELSE Append(logs, TryEntry(message, u.outer.v, u.inner.v, Len(logs), t)) :
                     u \in { Unwrap(message) } } : TRUE

RECURSIVE ProcessMessages(_, _, _)
ProcessMessages(logs, messages, t) ==
    IF messages = << >> THEN logs
    ELSE ProcessMessages(LoopBody(logs, Head(messages), t), Tail(messages), t)

\* ------------------------------------------------------------------ state

VARIABLES
    queueUrl,       \* SQS_QUEUE_URL is set (read once, when the module loads)
    queue,          \* the messages held by the SQS queue
    now,            \* the wall clock (Date.now(), new Date())
    received,       \* what the last ReceiveMessage call returned
    logsResponse,   \* the last response of GET /api/logs
    previous,       \* what the poll before the last one was given and answered
    clsPayload,     \* classifier run: the payload given to determineLogLevel
    clsLevel,       \* classifier run: the level returned for it
    bucket,         \* the objects of the S3 bucket
    s3Response,     \* the last response of /api/s3
    lastUpload,     \* the last POST /api/s3: its files, clock readings and outcome
    removed,        \* the keys of that POST or of the kept listing deleted through DELETE /api/s3
    earlier,        \* the first listing of GET /api/s3 since that POST that a client kept
    viewLogs,       \* LogsView: the logs state
    viewLoading,    \* LogsView: the loading state
    viewError,      \* LogsView: the error state
    inflight,       \* LogsView: the /api/logs requests that have not settled
    lastFetched,    \* LogsView: what the request that settled last settled with
    timer,          \* LogsView: the time since the interval was set or last fired
    mounted,        \* LogsView: "initial", "mounted" or "unmounted"
    mfFiles,        \* ManageFilesView: the files state
    mfLoading,      \* ManageFilesView: the loading state
    mfError,        \* ManageFilesView: the error state
    selectedFile,   \* ManageFilesView: the selectedFile state
    deleteConfirm,  \* ManageFilesView: the deleteConfirm state
    actionStatus,   \* ManageFilesView: the actionStatus state
    deleting,       \* ManageFilesView: the handleDelete calls waiting for their response
    clicked,        \* ManageFilesView: the file whose delete button the last event clicked
    deleted         \* ManageFilesView: the ids of the files whose DELETE request succeeded

logsVars == << queueUrl, queue, now, received, logsResponse, previous >>
clsVars == << clsPayload, clsLevel >>
s3Vars == << bucket, s3Response, lastUpload, removed, earlier >>
viewVars == << viewLogs, viewLoading, viewError, inflight, lastFetched, timer, mounted >>
manageVars ==
    << mfFiles, mfLoading, mfError, selectedFile, deleteConfirm, actionStatus,
       deleting, clicked, deleted >>
vars == << logsVars, clsVars, s3Vars, viewVars, manageVars >>

\* ------------------------------------------------------------------ bounds

MaxQueue == 2
MaxClock == 1
MaxObjects == 3
StepsPerInterval == 2
MaxLatencySteps == 3

\* ------------------------------------------------------- subsystems at rest

\* No request to /api/s3 has been answered.
NoS3Response ==
    [op |-> "none", status |-> 0, success |-> FALSE, message |-> JUndef,
     hasFiles |-> FALSE, files |-> << >>]

\* No POST /api/s3 has been made.
NoUpload == [ok |-> FALSE, files |-> << >>, clock |-> << >>, results |-> << >>]

\* No listing has been returned.
NoListing == [present |-> FALSE, files |-> << >>]

S3Idle ==
    /\ bucket = {}
    /\ s3Response = NoS3Response
    /\ lastUpload = NoUpload
    /\ removed = {}
    /\ earlier = NoListing

\* ManageFilesView has not been rendered: its useState initial values.
ManageIdle ==
    /\ mfFiles = << >>
    /\ mfLoading = TRUE
    /\ mfError = JNull
    /\ selectedFile = JNull
    /\ deleteConfirm = JNull
    /\ actionStatus = [present |-> FALSE, success |-> FALSE, message |-> << >>]
    /\ deleting = << >>
    /\ clicked = JNull
    /\ deleted = {}

\* useState([]), useState(true), useState(null); the effect has not run.
ViewIdle ==
    /\ viewLogs = << >>
    /\ viewLoading = TRUE
    /\ viewError = JNull
    /\ inflight = {}
    /\ lastFetched = [rejected |-> FALSE, error |-> << >>,
                     res |-> [status |-> 0, success |-> FALSE, hasLogs |-> FALSE,
                              logs |-> << >>, message |-> << >>]]
    /\ timer = 0
    /\ mounted = "initial"

\* --------------------------------------------------- logs route: GET /api/logs

NoResponse == [status |-> 0, success |-> FALSE, hasLogs |-> FALSE, logs |-> << >>, message |-> << >>]

\* NextResponse.json({ success: true, logs })
LogsOk(logs) == [status |-> 200, success |-> TRUE, hasLogs |-> TRUE, logs |-> logs, message |-> << >>]

\* NextResponse.json({ success: false, message }, { status: 500 })
LogsFailed(message) ==
    [status |-> 500, success |-> FALSE, hasLogs |-> FALSE, logs |-> << >>, message |-> message]

\* What sqsClient.send resolves or rejects with: failed (the rejection's
\* message in error), or a response whose Messages is present or not.
Receive(failed, error, present, msgs) ==
    [failed |-> failed, error |-> error, present |-> present, msgs |-> msgs]

NotReceived == Receive(FALSE, << >>, FALSE, << >>)

mockLogs(t) ==
    << LogEntry(JStr(<< "1" >>), JStr(ISOString(t)), LevelINFO,
                JStr(<< "T","h","i","s"," ","i","s"," ","m","o","c","k"," ","d","a","t","a","."," ","P","l","e","a","s","e"," ","c","o","n","f","i","g","u","r","e"," ","S","Q","S","_","Q","U","E","U","E","_","U","R","L"," ","i","n"," ","y","o","u","r"," ","e","n","v","i","r","o","n","m","e","n","t"," ","v","a","r","i","a","b","l","e","s","." >>),
                JStr(<< "m","o","c","k","G","e","n","e","r","a","t","o","r" >>), JStr(<< "m","o","c","k","-","r","e","q","-","1","2","3" >>)),
       LogEntry(JStr(<< "2" >>), JStr(ISOString(t)), LevelWARN,
                JStr(<< "S","Q","S","_","Q","U","E","U","E","_","U","R","L"," ","e","n","v","i","r","o","n","m","e","n","t"," ","v","a","r","i","a","b","l","e"," ","i","s"," ","m","i","s","s","i","n","g","."," ","C","h","e","c","k"," ","y","o","u","r"," ",".","e","n","v",".","l","o","c","a","l"," ","f","i","l","e","." >>),
                JStr(<< "c","o","n","f","i","g","C","h","e","c","k","e","r" >>), JStr(<< "m","o","c","k","-","r","e","q","-","1","2","4" >>)) >>

\* Mutant of LogsGETResponse: a failed receive call is answered as an empty batch.
LogsGETResponse_SwallowFailure(url, r, t) ==
    IF url
    THEN IF r.failed \/ ~r.present \/ Len(r.msgs) = 0
         THEN LogsOk(<< >>)
         ELSE LogsOk(ProcessMessages(<< >>, r.msgs, t))
    ELSE LogsOk(mockLogs(t))

\* Mutant of LogsGETResponse: the queue branch is taken without a queue URL.
LogsGETResponse_NoMock(url, r, t) ==
    IF r.failed
    THEN LogsFailed(<< "F","a","i","l","e","d"," ","t","o"," ","f","e","t","c","h"," ","l","o","g","s",":"," ","S","Q","S"," ","e","r","r","o","r",":"," " >> \o r.error)
    ELSE IF ~r.present \/ Len(r.msgs) = 0
    THEN LogsOk(<< >>)
    ELSE LogsOk(ProcessMessages(<< >>, r.msgs, t))

\* export async function GET(): the response, given whether the queue URL is
\* set, the outcome r of the receive call (not made without a URL) and the clock.
LogsGETResponse(url, r, t) ==
    IF url
    THEN IF r.failed
         THEN LogsFailed(<< "F","a","i","l","e","d"," ","t","o"," ","f","e","t","c","h"," ","l","o","g","s",":"," ","S","Q","S"," ","e","r","r","o","r",":"," " >> \o r.error)
         ELSE IF ~r.present \/ Len(r.msgs) = 0
         THEN LogsOk(<< >>)
         ELSE LogsOk(ProcessMessages(<< >>, r.msgs, t))
    ELSE LogsOk(mockLogs(t))

\* The subsequence of q at the positions of sel.
RECURSIVE Pick(_, _, _)
Pick(q, sel, i) ==
    IF i > Len(q) THEN << >>
    ELSE (IF i \in sel THEN << q[i] >> ELSE << >>) \o Pick(q, sel, i + 1)

\* What a receive call can return: it fails, or it returns at most
\* MaxNumberOfMessages of the queue's messages in queue order; an empty
\* result comes with Messages absent or empty.
ReceiveOutcomes ==
    { Receive(TRUE, e, FALSE, << >>) : e \in { << "c","o","n","n","e","c","t"," ","E","T","I","M","E","D","O","U","T" >>, << "U","n","k","n","o","w","n"," ","e","r","r","o","r" >> } }
    \cup { Receive(FALSE, << >>, TRUE, Pick(queue, sel, 1)) :
             sel \in { s \in SUBSET (1..Len(queue)) : Cardinality(s) <= MaxNumberOfMessages } }
    \cup { Receive(FALSE, << >>, FALSE, << >>) }

\* A producer publishes a notification that SNS delivers to the queue; the
\* queue gives no two of its messages the same identifier.
SendMessage ==
    /\ Len(queue) < MaxQueue
    /\ \E m \in Messages :
         /\ Truthy(m.MessageId) => \A i \in 1..Len(queue) : queue[i].MessageId # m.MessageId
         /\ queue' = Append(queue, m)
    /\ UNCHANGED << queueUrl, now, received, logsResponse, previous, clsVars, s3Vars, viewVars, manageVars >>

\* The queue q without the messages of msgs.
Without(q, msgs) ==
    SelectSeq(q, LAMBDA m : \A i \in 1..Len(msgs) : msgs[i] # m)

\* Mutant of LogsGETAnswered: the messages received are deleted from the queue.
LogsGETAnswered_Deletes ==
    /\ queueUrl
    /\ \E r \in ReceiveOutcomes :
         /\ received' = r
         /\ logsResponse' = LogsGETResponse(queueUrl, r, now)
         /\ queue' = Without(queue, r.msgs)
    /\ UNCHANGED << queueUrl, now, clsVars, s3Vars, viewVars, manageVars >>

\* GET /api/logs with a queue URL: one receive call, no delete call.
LogsGETAnswered ==
    /\ queueUrl
    /\ \E r \in ReceiveOutcomes :
         /\ received' = r
         /\ logsResponse' = LogsGETResponse(queueUrl, r, now)
    /\ UNCHANGED << queueUrl, queue, now, clsVars, s3Vars, viewVars, manageVars >>

LogsGET == LogsGETAnswered /\ UNCHANGED previous

\* The same request, by a caller that remembers its previous poll.
LogsGETAgain ==
    /\ LogsGETAnswered
    /\ previous' = [received |-> received, response |-> logsResponse]

\* GET /api/logs without a queue URL: no queue call at all.
LogsGETMock ==
    /\ ~queueUrl
    /\ received' = NotReceived
    /\ logsResponse' = LogsGETResponse(queueUrl, NotReceived, now)
    /\ UNCHANGED << queueUrl, queue, now, previous, clsVars, s3Vars, viewVars, manageVars >>

ClsIdle == clsPayload = JUndef /\ clsLevel = << >>

\* No poll before the last one.
NoPrevious == [received |-> NotReceived, response |-> NoResponse]

\* The route's module has been loaded, at any reading of the clock.
InitLogs ==
    /\ queueUrl \in BOOLEAN
    /\ queue = << >>
    /\ now \in 0..MaxClock
    /\ received = NotReceived
    /\ logsResponse = NoResponse
    /\ previous = NoPrevious
    /\ ClsIdle
    /\ S3Idle
    /\ ViewIdle
    /\ ManageIdle

NextLogs == SendMessage \/ LogsGET \/ LogsGETMock

SpecLogs == InitLogs /\ [][NextLogs]_vars

\* ------------------------------------------------- classifier run: inputs

\* An optional member: no member for JUndef.
Member(key, v) == IF v = JUndef THEN << >> ELSE << KV(key, v) >>

LevelFields ==
    { JUndef, JStr(<< "w","a","r","n" >>), JStr(<< "W","A","R","N" >>), JStr(<< "I","n","f","o" >>), JStr(<< "e","r","r","o","r" >>), JStr(<< "E","R","R","O","R" >>),
      JStr(<< "d","e","b","u","g" >>), JStr(<< "w","a","r","n","i","n","g" >>), JStr(<< >>), JNum(5) }

MessageFields ==
    { JUndef, JStr(<< "a","l","l"," ","g","o","o","d" >>), JStr(<< "d","i","s","k"," ","e","r","r","o","r" >>), JStr(<< "N","u","l","l","P","o","i","n","t","e","r","E","x","c","e","p","t","i","o","n"," ","a","t"," ","x" >>),
      JStr(<< "u","p","l","o","a","d"," ","F","A","I","L","E","D" >>), JStr(<< "W","a","r","n","i","n","g",":"," ","s","l","o","w" >>), JStr(<< "C","a","u","t","i","o","n",","," ","h","o","t" >>),
      JStr(<< "w","a","r","n","e","d"," ","o","f"," ","a","n"," ","E","r","r","o","r" >>) }

ExtraFields == { JUndef, JNum(1) }

\* The payloads given to the classifier: objects with or without level,
\* message and a member named failover, and values that are not objects.
Payloads ==
    { JObj(Member(LevelKey, l) \o Member(MessageTextKey, m) \o Member(<< "f","a","i","l","o","v","e","r" >>, x)) :
        l \in LevelFields, m \in MessageFields, x \in ExtraFields }
    \cup { JNull, JFalse, JTrue, JNum(0), JNum(7), JStr(<< >>), JStr(<< "f","a","t","a","l"," ","e","x","c","e","p","t","i","o","n" >>),
           JStr(<< "b","e"," ","w","a","r","n","e","d" >>) }

\* One call of determineLogLevel.
Classify ==
    /\ clsPayload # JUndef
    /\ clsLevel = << >>
    /\ clsLevel' = determineLogLevel(clsPayload)
    /\ UNCHANGED << clsPayload, logsVars, s3Vars, viewVars, manageVars >>

LogsIdle ==
    /\ queueUrl = FALSE
    /\ queue = << >>
    /\ now = 0
    /\ received = NotReceived
    /\ logsResponse = NoResponse
    /\ previous = NoPrevious

InitClassify ==
    /\ clsPayload \in Payloads
    /\ clsLevel = << >>
    /\ LogsIdle
    /\ S3Idle
    /\ ViewIdle
    /\ ManageIdle

NextClassify == Classify

SpecClassify == InitClassify /\ [][NextClassify]_vars

\* ------------------------------------------------ S3 route: /api/s3, pure part

\* Prefix: 'uploads/'
UploadsPrefix == << "u","p","l","o","a","d","s","/" >>

\* `uploads/${Date.now()}-${file.name}`
UploadKey(t, name) == UploadsPrefix \o NatToText(t) \o << "-" >> \o name

\* An object of the bucket: its key, its byte length and the time of its put.
S3Object(key, size, modified) == [Key |-> key, Size |-> size, LastModified |-> modified]

\* PutObjectCommand: the object under the key is created or replaced.
PutObject(objects, key, size, t) ==
    { o \in objects : o.Key # key } \cup { S3Object(key, size, t) }

\* Mutant of DeleteObject: the call is answered and nothing is deleted.
DeleteObject_Nothing(objects, key) == objects

\* DeleteObjectCommand: the object under the key, if there is one, is gone.
DeleteObject(objects, key) == { o \in objects : o.Key # key }

\* The characters of the keys, in code order.
KeyChars == << "-", "/" >> \o DigitChars \o LowerChars

\* a sorts before b in the order of the character codes.
TextLess(a, b) ==
    \E i \in 1..(Min(Len(a), Len(b)) + 1) :
        /\ \A j \in 1..(i - 1) : a[j] = b[j]
        /\ \/ i > Len(a) /\ i <= Len(b)
           \/ i <= Len(a) /\ i <= Len(b) /\ IndexIn(a[i], KeyChars) < IndexIn(b[i], KeyChars)

StartsWith(s, prefix) == Len(s) >= Len(prefix) /\ SubSeq(s, 1, Len(prefix)) = prefix

\* The objects of a set in the order of their keys.
InKeyOrder(objects) ==
    [i \in 1..Cardinality(objects) |->
        CHOOSE o \in objects : Cardinality({ q \in objects : TextLess(q.Key, o.Key) }) = i - 1]

\* ListObjectsV2Command with a Prefix: the matching objects in key order;
\* Contents is absent when none matches.
ListObjects(objects, prefix) ==
    CHOOSE res \in { [present |-> found # {}, Contents |-> InKeyOrder(found)] :
                     found \in { { o \in objects : StartsWith(o.Key, prefix) } } } : TRUE

\* expiresIn: 3600
ExpiresIn == 3600

\* getSignedUrl(s3Client, new GetObjectCommand({ Key }), { expiresIn })
SignedUrl(key) == [Key |-> key, expiresIn |-> ExpiresIn]

\* Mutant of FileEntry: the whole key is the name.
FileEntry_KeyAsName(item) ==
    [id |-> item.Key,
     name |-> item.Key,
     size |-> IF item.Size # 0 THEN item.Size ELSE 0,
     lastModified |-> ISOString(item.LastModified),
     url |-> SignedUrl(item.Key)]

\* The entry of the listing made of one object of Contents.
FileEntry(item) ==
    [id |-> item.Key,
     name |-> SplitPop(item.Key, "/"),
     size |-> IF item.Size # 0 THEN item.Size ELSE 0,
     lastModified |-> ISOString(item.LastModified),
     url |-> SignedUrl(item.Key)]

\* NextResponse.json(...) of the three handlers.
S3Json(op, status, success, message, hasFiles, files) ==
    [op |-> op, status |-> status, success |-> success, message |-> message,
     hasFiles |-> hasFiles, files |-> files]

\* Mutant of UploadAll: a rejected put is skipped and the loop goes on.
RECURSIVE UploadAll_KeepsGoing(_, _, _, _, _, _)
UploadAll_KeepsGoing(objects, results, files, clock, failAt, i) ==
    IF i > Len(files)
    THEN [objects |-> objects, results |-> results, ok |-> failAt > Len(files)]
    ELSE IF i = failAt
    THEN UploadAll_KeepsGoing(objects, results, files, clock, failAt, i + 1)
    ELSE UploadAll_KeepsGoing(PutObject(objects, UploadKey(clock[i], files[i].name), files[i].size, clock[i]),
                              Append(results, [fileName |-> files[i].name,
                                               key |-> UploadKey(clock[i], files[i].name)]),
                              files, clock, failAt, i + 1)

\* The puts of POST from the i-th file on: files[i] is put under a key made
\* of the clock reading clock[i]; the failAt-th put rejects (none does when
\* failAt is past the last file), which ends the loop.
RECURSIVE UploadAll(_, _, _, _, _, _)
UploadAll(objects, results, files, clock, failAt, i) ==
    IF i > Len(files) THEN [objects |-> objects, results |-> results, ok |-> TRUE]
    ELSE IF i = failAt THEN [objects |-> objects, results |-> results, ok |-> FALSE]
    ELSE UploadAll(PutObject(objects, UploadKey(clock[i], files[i].name), files[i].size, clock[i]),
                   Append(results, [fileName |-> files[i].name,
                                    key |-> UploadKey(clock[i], files[i].name)]),
                   files, clock, failAt, i + 1)

\* export async function POST: the response, given the outcome u of the puts.
S3POSTResponse(files, u) ==
    IF u.ok
    THEN S3Json("POST", 200, TRUE,
                JStr(<< "S","u","c","c","e","s","s","f","u","l","l","y"," ","u","p","l","o","a","d","e","d"," " >> \o NatToText(Len(files)) \o << " ","f","i","l","e","(","s",")" >>),
                TRUE, u.results)
    ELSE S3Json("POST", 500, FALSE, JStr(<< "F","a","i","l","e","d"," ","t","o"," ","u","p","l","o","a","d"," ","f","i","l","e","s" >>), FALSE, << >>)

\* export async function GET: the response, given whether a call of the
\* handler rejected and what the list call returned.
S3GETResponse(failed, listed) ==
    IF failed
    THEN S3Json("GET", 500, FALSE, JStr(<< "F","a","i","l","e","d"," ","t","o"," ","f","e","t","c","h"," ","f","i","l","e","s" >>), FALSE, << >>)
    ELSE IF ~listed.present
    THEN S3Json("GET", 200, TRUE, JUndef, TRUE, << >>)
    ELSE S3Json("GET", 200, TRUE, JUndef, TRUE,
                [i \in 1..Len(listed.Contents) |-> FileEntry(listed.Contents[i])])

\* export async function DELETE: the response, given the fileId of the
\* request body and whether reading the body or the delete call rejected.
S3DELETEResponse(fileId, failed) ==
    IF failed
    THEN S3Json("DELETE", 500, FALSE, JStr(<< "F","a","i","l","e","d"," ","t","o"," ","d","e","l","e","t","e"," ","f","i","l","e" >>), FALSE, << >>)
    ELSE IF ~Truthy(fileId)
    THEN S3Json("DELETE", 400, FALSE, JStr(<< "F","i","l","e"," ","I","D"," ","i","s"," ","r","e","q","u","i","r","e","d" >>), FALSE, << >>)
    ELSE S3Json("DELETE", 200, TRUE, JStr(<< "F","i","l","e"," ","d","e","l","e","t","e","d"," ","s","u","c","c","e","s","s","f","u","l","l","y" >>), FALSE, << >>)

\* ------------------------------------------------------ S3 route: inputs

\* A file of the form data: its name and its byte length.
FormFile(name, size) == [name |-> name, size |-> size]

\* The files of the upload requests: one name twice, a name with a slash, an
\* empty file.
UploadRequests ==
    { << >>,
      << FormFile(<< "a" >>, 5) >>,
      << FormFile(<< "b","/","c" >>, 3) >>,
      << FormFile(<< "a" >>, 5), FormFile(<< "a" >>, 0) >>,
      << FormFile(<< "a" >>, 0), FormFile(<< "b","/","c" >>, 3) >> }

\* An object that is not an upload of this application.
ForeignObject == S3Object(<< "l","o","g","s","/","a" >>, 7, 0)

\* The clock readings of n puts in a row that start no earlier than t.
Readings(n, t) ==
    { c \in [1..n -> t..MaxClock] : \A i \in 1..(n - 1) : c[i] <= c[i + 1] }

\* The fileId values of the delete requests: the key of an object, a key
\* that is not there, the empty text, none.
DeleteIds ==
    { JStr(o.Key) : o \in bucket } \cup { JStr(UploadKey(0, << "z","z" >>)), JStr(<< >>), JUndef }

\* ----------------------------------------------------- S3 route: actions

\* The wall clock advances.
Tick ==
    /\ now < MaxClock
    /\ now' = now + 1
    /\ UNCHANGED << queueUrl, queue, received, logsResponse, previous, clsVars, s3Vars, viewVars, manageVars >>

\* POST /api/s3 whose body is form data: the whole loop of puts.
S3POST ==
    /\ \E files \in UploadRequests :
       \E clock \in Readings(Len(files), now), failAt \in 1..(Len(files) + 1) :
       \E u \in { UploadAll(bucket, << >>, files, clock, failAt, 1) } :
           /\ Cardinality(u.objects) <= MaxObjects
           /\ bucket' = u.objects
           /\ s3Response' = S3POSTResponse(files, u)
           /\ lastUpload' = [ok |-> u.ok, files |-> files, clock |-> clock, results |-> u.results]
           /\ now' = IF Len(u.results) = 0 THEN now ELSE clock[Len(u.results)]
    /\ removed' = {}
    /\ earlier' = NoListing
    /\ UNCHANGED << queueUrl, queue, received, logsResponse, previous, clsVars, viewVars, manageVars >>

\* POST /api/s3 whose body cannot be read as form data: formData() rejects.
S3POSTBadForm ==
    /\ s3Response' = S3POSTResponse(<< >>, [objects |-> bucket, results |-> << >>, ok |-> FALSE])
    /\ lastUpload' = NoUpload
    /\ removed' = {}
    /\ earlier' = NoListing
    /\ UNCHANGED << logsVars, clsVars, bucket, viewVars, manageVars >>

\* GET /api/s3: one list call, then one signed URL per object.
S3GETAnswered ==
    /\ \E failed \in BOOLEAN :
         s3Response' = S3GETResponse(failed, ListObjects(bucket, UploadsPrefix))
    /\ UNCHANGED << logsVars, clsVars, bucket, lastUpload, removed, viewVars, manageVars >>

\* GET /api/s3, its listing kept by nobody.
S3GET == S3GETAnswered /\ UNCHANGED earlier

\* GET /api/s3 by a client that keeps the first listing it is given.
S3GETKept ==
    /\ S3GETAnswered
    /\ earlier' = IF s3Response'.success /\ ~earlier.present
                  THEN [present |-> TRUE, files |-> s3Response'.files]
                  ELSE earlier

\* DELETE /api/s3: one delete call when the body names a fileId.
S3DELETE ==
    /\ \E fileId \in DeleteIds, failed \in BOOLEAN :
         /\ s3Response' = S3DELETEResponse(fileId, failed)
         /\ bucket' = IF s3Response'.success THEN DeleteObject(bucket, fileId.s) ELSE bucket
         /\ removed' = IF /\ s3Response'.success
                          /\ \/ \E i \in 1..Len(lastUpload.results) :
                                    lastUpload.results[i].key = fileId.s
                             \/ \E k \in 1..Len(earlier.files) : earlier.files[k].id = fileId.s
                       THEN removed \cup { fileId.s } ELSE removed
    /\ UNCHANGED << logsVars, clsVars, lastUpload, earlier, viewVars, manageVars >>

\* The bucket holds nothing, or an object put there by something else.
InitS3 ==
    /\ LogsIdle
    /\ ClsIdle
    /\ ViewIdle
    /\ ManageIdle
    /\ bucket \in { {}, { ForeignObject } }
    /\ s3Response = NoS3Response
    /\ lastUpload = NoUpload
    /\ removed = {}
    /\ earlier = NoListing

NextS3 == Tick \/ S3POST \/ S3POSTBadForm \/ S3GET \/ S3DELETE

SpecS3 == InitS3 /\ [][NextS3]_vars

\* The buckets left by one upload request, or by two of them a tick apart,
\* in a bucket that held one foreign object.
UploadedBuckets ==
    { UploadAll(UploadAll({ ForeignObject }, << >>, first, [i \in 1..Len(first) |-> 0],
                          Len(first) + 1, 1).objects,
                << >>, second, [i \in 1..Len(second) |-> 1], Len(second) + 1, 1).objects :
        first \in UploadRequests \ { << >> }, second \in UploadRequests }

\* Listings and deletes of a client after the uploads, with no further upload.
InitS3Kept ==
    /\ LogsIdle
    /\ ClsIdle
    /\ ViewIdle
    /\ ManageIdle
    /\ bucket \in UploadedBuckets
    /\ s3Response = NoS3Response
    /\ lastUpload = NoUpload
    /\ removed = {}
    /\ earlier = NoListing

NextS3Kept == S3GETKept \/ S3DELETE

SpecS3Kept == InitS3Kept /\ [][NextS3Kept]_vars

\* ---------------------------------------------- LogsView: fetchLogs, pure part

\* setInterval(fetchLogs, 30000)
PollIntervalMs == 30000

\* The time that one step of the view's clock stands for, and the longest
\* time a request stays pending.
StepMs == PollIntervalMs \div StepsPerInterval
MaxLatencyMs == MaxLatencySteps * StepMs

\* What fetch('/api/logs') followed by response.json() settles with: one of
\* the two rejects with an Error whose message is error, or res is the
\* response of the route.
Fetched(rejected, error, res) == [rejected |-> rejected, error |-> error, res |-> res]

\* response.ok
ResponseOk(res) == res.status \in 200..299

\* The try block of fetchLogs throws.
FetchThrows(f) == f.rejected \/ ~ResponseOk(f.res) \/ ~f.res.success

\* The message of what the try block throws.
ThrownMessage(f) ==
    IF f.rejected THEN f.error
    ELSE IF ~ResponseOk(f.res) THEN << "H","T","T","P"," ","e","r","r","o","r","!"," ","S","t","a","t","u","s",":"," " >> \o NatToText(f.res.status)
    ELSE IF f.res.message # << >> THEN f.res.message
    ELSE << "F","a","i","l","e","d"," ","t","o"," ","f","e","t","c","h"," ","l","o","g","s" >>

\* Mutant of AfterFetch: the returned list is appended to the stored one.
AfterFetch_Merge(logs, error, f) ==
    IF FetchThrows(f)
    THEN [logs |-> logs,
          error |-> JStr(<< "F","a","i","l","e","d"," ","t","o"," ","f","e","t","c","h"," ","S","N","S"," ","l","o","g","s",":"," " >> \o ThrownMessage(f))]
    ELSE [logs |-> logs \o (IF f.res.hasLogs THEN f.res.logs ELSE << >>),
          error |-> error]

\* The logs and error states after the part of fetchLogs that follows its
\* awaits, from the states before it.
AfterFetch(logs, error, f) ==
    IF FetchThrows(f)
    THEN [logs |-> logs,
          error |-> JStr(<< "F","a","i","l","e","d"," ","t","o"," ","f","e","t","c","h"," ","S","N","S"," ","l","o","g","s",":"," " >> \o ThrownMessage(f))]
    ELSE [logs |-> IF f.res.hasLogs THEN f.res.logs ELSE << >>,
          error |-> error]

\* Mutant of TimerDue: the callback is due after half the interval.
TimerDue_HalfWay(elapsed) == elapsed >= PollIntervalMs \div 2

\* The interval's callback is due.
TimerDue(elapsed) == elapsed >= PollIntervalMs

\* ------------------------------------------------------ LogsView: inputs

ServerErrorText == << "F","a","i","l","e","d"," ","t","o"," ","f","e","t","c","h"," ","l","o","g","s",":"," ","S","Q","S"," ","e","r","r","o","r",":"," ","U","n","k","n","o","w","n"," ","e","r","r","o","r" >>

\* What a request can settle with: a rejection, lists of entries, a body
\* without logs, a 500, and bodies that say success: false.
FetchOutcomes ==
    { Fetched(TRUE, << "F","a","i","l","e","d"," ","t","o"," ","f","e","t","c","h" >>, NoResponse) }
    \cup { Fetched(FALSE, << >>, res) :
             res \in { LogsOk(<< >>),
                       LogsOk(mockLogs(0)),
                       LogsOk(<< mockLogs(1)[2] >>),
                       [LogsOk(<< >>) EXCEPT !.hasLogs = FALSE],
                       LogsFailed(ServerErrorText),
                       [LogsFailed(ServerErrorText) EXCEPT !.status = 200],
                       [LogsFailed(<< >>) EXCEPT !.status = 200] } }

\* ----------------------------------------------------- LogsView: actions

\* fetchLogs up to its first await: loading and error are set and the
\* request leaves, whatever else is pending. A request carries the time it
\* has been pending and whether an error was on display when it left.
StartFetch ==
    /\ viewLoading' = TRUE
    /\ viewError' = JNull
    /\ inflight' = inflight \cup { [age |-> 0, afterError |-> Truthy(viewError)] }

\* The effect runs: fetchLogs() and setInterval(fetchLogs, 30000).
Mount ==
    /\ mounted = "initial"
    /\ mounted' = "mounted"
    /\ timer' = 0
    /\ StartFetch
    /\ UNCHANGED << logsVars, clsVars, s3Vars, manageVars, viewLogs, lastFetched >>

\* Time passes: by one step, not past a due callback of the interval and not
\* past the longest latency of a pending request.
TimePasses ==
    /\ mounted = "mounted" \/ inflight # {}
    /\ mounted = "mounted" => ~TimerDue(timer)
    /\ \A r \in inflight : r.age + StepMs <= MaxLatencyMs
    /\ inflight' = { [r EXCEPT !.age = r.age + StepMs] : r \in inflight }
    /\ timer' = IF mounted = "mounted" THEN timer + StepMs ELSE timer
    /\ UNCHANGED << logsVars, clsVars, s3Vars, manageVars, viewLogs, viewLoading, viewError, lastFetched, mounted >>

\* The interval fires: fetchLogs is called again.
TimerFires ==
    /\ mounted = "mounted"
    /\ TimerDue(timer)
    /\ timer' = 0
    /\ StartFetch
    /\ UNCHANGED << logsVars, clsVars, s3Vars, manageVars, viewLogs, lastFetched, mounted >>

\* A pending request settles and fetchLogs runs to its end: try, catch,
\* finally. The state setters of a view that is gone do nothing.
Settle ==
    /\ \E r \in inflight, f \in FetchOutcomes :
         /\ inflight' = inflight \ { r }
         /\ lastFetched' = f
         /\ IF mounted = "mounted"
            THEN /\ viewLogs' = AfterFetch(viewLogs, viewError, f).logs
                 /\ viewError' = AfterFetch(viewLogs, viewError, f).error
                 /\ viewLoading' = FALSE
            ELSE UNCHANGED << viewLogs, viewError, viewLoading >>
    /\ UNCHANGED << logsVars, clsVars, s3Vars, manageVars, timer, mounted >>

\* The effect's cleanup: clearInterval(intervalId).
Unmount ==
    /\ mounted = "mounted"
    /\ mounted' = "unmounted"
    /\ timer' = 0
    /\ UNCHANGED << logsVars, clsVars, s3Vars, manageVars, viewLogs, viewLoading, viewError, inflight, lastFetched >>

InitView ==
    /\ LogsIdle
    /\ ClsIdle
    /\ S3Idle
    /\ ViewIdle
    /\ ManageIdle

NextView == Mount \/ TimePasses \/ TimerFires \/ Settle \/ Unmount

SpecView == InitView /\ [][NextView]_vars

\* What the view renders below its controls: the spinner while loading, else
\* the error when there is one, else the empty-state text or the entries
\* (filter 'ALL' and an empty search term keep every entry).
Display ==
    IF viewLoading THEN "loading"
    ELSE IF Truthy(viewError) THEN "error"
    ELSE IF Len(viewLogs) = 0 THEN "empty"
    ELSE "data"

\* The view under fair scheduling: the effect runs after the first render,
\* timers fire when due, time passes, and every request settles.
SpecViewLive ==
    /\ InitView
    /\ [][NextView]_vars
    /\ WF_vars(Mount)
    /\ WF_vars(TimePasses)
    /\ WF_vars(TimerFires)
    /\ WF_vars(Settle)

\* --------------------------------------------------------------- C7

\* The payload carries a level field whose uppercased value is exactly
\* INFO, WARN or ERROR.
HasValidLevel(p) ==
    /\ p.t = "obj"
    /\ Get(p, LevelKey).t = "str"
    /\ ToUpperCase(Get(p, LevelKey).s) \in { LevelINFO, LevelWARN, LevelERROR }

Classified == clsLevel # << >>

\* C7: for every payload carrying a level field whose uppercased value is
\* exactly INFO, WARN or ERROR, determineLogLevel returns that uppercased
\* value, whatever the rest of the payload contains.
C7_ExplicitLevelWins ==
    (Classified /\ HasValidLevel(clsPayload))
        => clsLevel = ToUpperCase(Get(clsPayload, LevelKey).s)

\* C7 witness: level "warn" with a message containing "error" was classified WARN.
C7_Witness ==
    /\ Classified
    /\ Get(clsPayload, LevelKey) = JStr(<< "w","a","r","n" >>)
    /\ Includes(ToLowerCase(Stringify(clsPayload)), << "e","r","r","o","r" >>)
    /\ clsLevel = LevelWARN

\* --------------------------------------------------------------- C8

\* The level the claim gives a serialized payload: first match wins.
C8_ContentLevel(text) ==
    IF \E w \in { << "e","r","r","o","r" >>, << "e","x","c","e","p","t","i","o","n" >>, << "f","a","i","l" >> } : Includes(ToLowerCase(text), w)
    THEN LevelERROR
    ELSE IF \E w \in { << "w","a","r","n" >>, << "c","a","u","t","i","o","n" >> } : Includes(ToLowerCase(text), w)
    THEN LevelWARN
    ELSE LevelINFO

\* C8: for every payload without a valid explicit level, determineLogLevel
\* returns the level found by case-insensitive substring search over the
\* serialized payload (ERROR for "error", "exception", "fail"; else WARN for
\* "warn", "caution"; else INFO); an empty or null payload yields INFO; the
\* level is always one of INFO, WARN, ERROR.
C8_ContentBased ==
    Classified =>
        /\ clsLevel \in { LevelINFO, LevelWARN, LevelERROR }
        /\ ~HasValidLevel(clsPayload) => clsLevel = C8_ContentLevel(Stringify(clsPayload))
        /\ clsPayload \in { JNull, JObj(<< >>) } => clsLevel = LevelINFO

\* C8 witness: a payload without level whose message holds "warn" and "Error"
\* was classified ERROR, the first match.
C8_Witness ==
    /\ Classified
    /\ clsPayload = JObj(<< KV(MessageTextKey, JStr(<< "w","a","r","n","e","d"," ","o","f"," ","a","n"," ","E","r","r","o","r" >>)) >>)
    /\ clsLevel = LevelERROR

\* ------------------------------------------------ claims on GET /api/logs

\* The handler has answered a poll for which the receive call returned.
BatchAnswered == logsResponse.status # 0 /\ queueUrl /\ ~received.failed

Batch == received.msgs
Logs == logsResponse.logs

\* The one entry of the response to the batch that holds message m alone,
\* for every message of the input set and every reading of the clock.
EntryAloneTable ==
    [m \in Messages |->
        [t \in 0..MaxClock |->
            LogsGETResponse(TRUE, Receive(FALSE, << >>, TRUE, << m >>), t).logs[1]]]

EntryAlone(m, t) == EntryAloneTable[m][t]

ParserText == << "p","a","r","s","e","r" >>
ErrorPrefix == << "E","r","r","o","r"," ","p","a","r","s","i","n","g"," ","m","e","s","s","a","g","e",":"," " >>

\* --------------------------------------------------------------- C1

\* C1: for every batch the queue returns (Messages absent or empty included)
\* the response is success:true with as many entries as messages, in delivery
\* order, the i-th entry being what the handler yields for the i-th message
\* alone (but for the index of a placeholder id): no message is dropped or
\* doubled, and a parse failure changes no other entry.
C1_OneEntryPerMessage ==
    BatchAnswered =>
        /\ logsResponse.success /\ logsResponse.status = 200 /\ logsResponse.hasLogs
        /\ Len(Logs) = Len(Batch)
        /\ \A i \in 1..Len(Batch) :
             Logs[i] = [EntryAlone(Batch[i], now) EXCEPT
                           !.id = Or(Batch[i].MessageId, JStr(Placeholder(i - 1)))]

\* C1 witness: a batch of two, the first failing to parse and the second not.
C1_Witness ==
    /\ BatchAnswered
    /\ Len(Batch) = 2 /\ Len(Logs) = 2
    /\ Logs[1].lambdaFunction = JStr(ParserText)
    /\ Logs[2].lambdaFunction # JStr(ParserText)

\* --------------------------------------------------------------- C2

\* message.Body is a JSON text of an object whose Message member is a string
\* that is not a JSON text.
InnerNotJson(m) ==
    /\ Truthy(m.Body)
    /\ Unwrap(m).outer.ok
    /\ Unwrap(m).outer.v.t = "obj"
    /\ Get(Unwrap(m).outer.v, MessageKey).t = "str"
    /\ Get(Unwrap(m).outer.v, MessageKey).s # << >>
    /\ ~Unwrap(m).inner.ok

\* C2: a message whose outer body is valid JSON but whose inner Message is not
\* valid JSON yields a normally classified entry, the payload taken as an
\* empty structure and the envelope's fields as fallback, not the error entry
\* with lambdaFunction "parser".
C2_InnerFailureDegrades ==
    BatchAnswered =>
        \A i \in 1..Len(Batch) :
            InnerNotJson(Batch[i]) =>
                /\ Logs[i].lambdaFunction = JStr(UnknownText)
                /\ Logs[i].level = determineLogLevel(JObj(<< >>))
                /\ Logs[i].message = Get(Unwrap(Batch[i]).outer.v, MessageKey)

\* --------------------------------------------------------------- C3

\* The entry the claim gives a message that fails to parse; text is the part
\* after "Error parsing message: ".
C3_ErrorEntry(e, m, text) ==
    /\ e.level = LevelERROR
    /\ e.lambdaFunction = JStr(ParserText)
    /\ e.requestId = (IF Truthy(m.MessageId) THEN m.MessageId ELSE JStr(UnknownText))
    /\ e.message = JStr(ErrorPrefix \o text)

\* C3 as stated: a message whose outer body is not valid JSON, an absent body
\* included, yields one entry with level ERROR, lambdaFunction "parser",
\* requestId the message's identifier or "unknown", and message "Error parsing
\* message: " with the first 100 characters of the body and "...", or with
\* "No content" when the body is absent.
C3_AsStated ==
    BatchAnswered =>
        /\ Len(Logs) = Len(Batch)
        /\ \A i \in 1..Len(Batch) :
             (Batch[i].Body.t # "str" \/ Batch[i].Body.s = << >> \/ ~Unwrap(Batch[i]).outer.ok) =>
                 C3_ErrorEntry(Logs[i], Batch[i],
                               IF Batch[i].Body.t = "str"
                               THEN SubSeq(Batch[i].Body.s, 1, Min(ExcerptLen, Len(Batch[i].Body.s)))
                                    \o << ".",".","." >>
                               ELSE << "N","o"," ","c","o","n","t","e","n","t" >>)

\* C3 amended: a message whose body is a non-empty text that is not valid JSON
\* yields one entry with level ERROR, lambdaFunction "parser", requestId the
\* message's identifier or "unknown", and message "Error parsing message: "
\* with the first 100 characters of the body and "..."; a message whose body
\* is absent or empty is parsed as '{}' and yields the normal entry (level
\* INFO, "No message content", "unknown", "unknown"), so that "No content" is
\* never produced.
C3_Amended ==
    BatchAnswered =>
        /\ Len(Logs) = Len(Batch)
        /\ \A i \in 1..Len(Batch) :
             /\ (Truthy(Batch[i].Body) /\ ~Unwrap(Batch[i]).outer.ok) =>
                    C3_ErrorEntry(Logs[i], Batch[i],
                                  SubSeq(Batch[i].Body.s, 1, Min(ExcerptLen, Len(Batch[i].Body.s)))
                                  \o << ".",".","." >>)
             /\ ~Truthy(Batch[i].Body) =>
                    /\ Logs[i].level = LevelINFO
                    /\ Logs[i].message = JStr(NoMessageContent)
                    /\ Logs[i].lambdaFunction = JStr(UnknownText)
                    /\ Logs[i].requestId = JStr(UnknownText)
             /\ Logs[i].message # JStr(ErrorPrefix \o << "N","o"," ","c","o","n","t","e","n","t" >>)

\* C3 witness: a body longer than 100 characters that is not JSON was cut, and
\* a message without body was answered in the same batch.
C3_Witness ==
    /\ BatchAnswered
    /\ \E i \in 1..Len(Batch) :
         /\ Batch[i].Body = BodyLongNotJson
         /\ Len(Logs[i].message.s) = Len(ErrorPrefix) + ExcerptLen + 3
    /\ \E i \in 1..Len(Batch) : Batch[i].Body = JUndef

\* --------------------------------------------------------------- C6

IdsDistinct == \A i, j \in 1..Len(Logs) : i # j => Logs[i].id # Logs[j].id

IdPrecedence ==
    /\ Len(Logs) = Len(Batch)
    /\ \A i \in 1..Len(Batch) :
         Logs[i].id = (IF Truthy(Batch[i].MessageId)
                       THEN Batch[i].MessageId
                       ELSE JStr(<< "m","s","g","-" >> \o NatToText(i - 1)))

C6_QueueIdsApart ==
    \A i, j \in 1..Len(Batch) :
        (i # j /\ Truthy(Batch[i].MessageId)) =>
            /\ Batch[i].MessageId # Batch[j].MessageId
            /\ ~Truthy(Batch[j].MessageId) => Batch[i].MessageId.s # << "m","s","g","-" >> \o NatToText(j - 1)

C9_ReceiveFailure ==
    (logsResponse.status # 0 /\ queueUrl /\ received.failed) =>
        /\ logsResponse.status = 500
        /\ ~logsResponse.success
        /\ ~logsResponse.hasLogs
        /\ logsResponse.logs = << >>
        /\ logsResponse.message # << >>

\* C9 witness: a receive call failed with messages in the queue.
C9_Witness ==
    /\ logsResponse.status = 500
    /\ received.failed
    /\ Len(queue) > 0

\* --------------------------------------------------------------- C10

\* The first of the candidates that is not falsy (undefined, null, "", 0,
\* false), or the last one.
RECURSIVE FirstTruthy(_)
FirstTruthy(cands) ==
    IF Len(cands) = 1 \/ Truthy(Head(cands)) THEN Head(cands) ELSE FirstTruthy(Tail(cands))

Listed == s3Response.op = "GET" /\ s3Response.success /\ s3Response.hasFiles

\* The last upload request succeeded: every put of it was made.
Uploaded == lastUpload.ok /\ Len(lastUpload.results) = Len(lastUpload.files)

\* The object put for the i-th file of the last upload is still the one under
\* its key: no later file of that request was put under the same key and the
\* key has not been deleted since.
StillStored(i) ==
    /\ lastUpload.results[i].key \notin removed
    /\ \A j \in (i + 1)..Len(lastUpload.results) :
           lastUpload.results[j].key # lastUpload.results[i].key

HasSlash(name) == \E k \in 1..Len(name) : name[k] = "/"

C5_AsStated == Cardinality(inflight) <= 1

\* C5: fetchLogs sends a request when the view mounts and whenever the
\* interval fires, whether or not an earlier request has settled; any two
\* requests in flight were sent at least one polling interval apart, so that
\* two are in flight only when one has been pending for 30 s or longer.
C5_Amended ==
    \A r \in inflight : \A q \in inflight :
        r # q => (r.age - q.age >= PollIntervalMs \/ q.age - r.age >= PollIntervalMs)

\* C5 witness: two requests in flight, the older one sent a polling interval
\* before the newer one.
C5_Witness ==
    /\ mounted = "mounted"
    /\ Cardinality(inflight) = 2
    /\ \E r \in inflight : r.age >= PollIntervalMs

\* --------------------------------------------------------------- C11

\* A request settles in this step.
Settled == inflight' # inflight /\ inflight' \subseteq inflight

\* The poll that settled failed: the request was rejected, or answered with a
\* status outside 200..299, or with a body that says success: false.
PollFailed(f) == f.rejected \/ f.res.status \notin 200..299 \/ ~f.res.success

\* The list a successful poll returned: none counts as the empty list.
ReturnedList(f) == IF f.res.hasLogs THEN f.res.logs ELSE << >>

\* C11: the logs state of the view changes only in a step in which a poll
\* settles successfully, and is then that poll's returned list and nothing
\* else; a poll that fails leaves it as it was.
C11_ReplacedOnSuccess ==
    [][ /\ viewLogs' # viewLogs =>
              (Settled /\ ~PollFailed(lastFetched') /\ viewLogs' = ReturnedList(lastFetched'))
        /\ (Settled /\ PollFailed(lastFetched')) => viewLogs' = viewLogs
        /\ (Settled /\ ~PollFailed(lastFetched') /\ mounted = "mounted") =>
              viewLogs' = ReturnedList(lastFetched')
      ]_vars

\* C11 witness: the last poll failed and the list of an earlier poll is still
\* stored, next to the error.
C11_Witness ==
    /\ mounted = "mounted"
    /\ PollFailed(lastFetched)
    /\ viewError.t = "str"
    /\ Len(viewLogs) = 2

\* --------------------------------------------------------------- C12

\* A mounted view that shows the spinner comes to show data, the empty-state
\* text or an error.
C12_LoadingEnds ==
    (mounted = "mounted" /\ Display = "loading")
        ~> (Display \in { "data", "empty", "error" } \/ mounted = "unmounted")

\* An error does not stop the loop: a later poll starts and clears it.
C12_LoopGoesOn ==
    (mounted = "mounted" /\ Truthy(viewError))
        ~> (viewError = JNull \/ mounted = "unmounted")

\* C12: every poll that starts leaves the loading state, ending in data, the
\* empty-state text or an error; a failed poll does not stop the loop, the
\* next tick issues a new poll; and when that poll, sent while the error was
\* on display, succeeds, the error is cleared and its entries are shown.
C12_AsStated ==
    /\ C12_LoadingEnds
    /\ C12_LoopGoesOn
    /\ [][ \A r \in inflight \ inflight' :
               (Settled /\ mounted = "mounted" /\ r.afterError /\ ~PollFailed(lastFetched')) =>
                   /\ viewLogs' = ReturnedList(lastFetched')
                   /\ viewError' = JNull
                   /\ Display' \in { "data", "empty" }
         ]_vars

\* --------------------------------------------------------------- C13

\* The ids of the entries of a listing.
Ids(files) == { files[k].id : k \in 1..Len(files) }

\* What a listing says of an object, its signed URL left aside.
Described(e) == [id |-> e.id, name |-> e.name, size |-> e.size, lastModified |-> e.lastModified]

\* C13: after successful DELETEs of file ids of an earlier listing, with no
\* upload since that listing, every later listing holds no entry with a
\* deleted id and holds every other entry of the earlier listing, unchanged,
\* and nothing else.
C13_DeleteThenList ==
    (Listed /\ earlier.present) =>
        /\ Ids(s3Response.files) = Ids(earlier.files) \ removed
        /\ \A k \in 1..Len(earlier.files) :
               earlier.files[k].id \notin removed =>
                   \E j \in 1..Len(s3Response.files) :
                       Described(s3Response.files[j]) = Described(earlier.files[k])

\* C13 witness: of the two files of an earlier listing one was deleted, and
\* the listing now holds the other one alone.
C13_Witness ==
    /\ Listed /\ earlier.present
    /\ Len(earlier.files) = 2
    /\ earlier.files[1].id \in removed
    /\ Len(s3Response.files) = 1
    /\ s3Response.files[1].id = earlier.files[2].id

\* ------------------------------------------------------ polling twice

\* Queues that producers have filled and nobody writes to any more.
PolledQueues ==
    { << SqsMessage(JUndef, BodyNotJson), SqsMessage(JStr(<< "a","1" >>), BodyFull) >>,
      << SqsMessage(JStr(<< "a","1" >>), BodyFull), SqsMessage(JUndef, JUndef) >>,
      << SqsMessage(JStr(<< "a","3" >>), BodySparse), SqsMessage(JStr(<< "a","2" >>), BodyLongNotJson) >>,
      << SqsMessage(JStr(<< "m","s","g","-","1" >>), BodyPlainInner) >> }

InitPoll ==
    /\ queueUrl = TRUE
    /\ queue \in PolledQueues
    /\ now = 0
    /\ received = NotReceived
    /\ logsResponse = NoResponse
    /\ previous = NoPrevious
    /\ ClsIdle
    /\ S3Idle
    /\ ViewIdle
    /\ ManageIdle

NextPoll == Tick \/ LogsGETAgain

SpecPoll == InitPoll /\ [][NextPoll]_vars

\* --------------------------------------------------------------- C14

\* The entries of a response, their timestamps left out.
Untimed(logs) == [i \in 1..Len(logs) |-> [logs[i] EXCEPT !.timestamp = JUndef]]

\* The last two polls were both given a batch by the queue.
TwoPolls ==
    /\ BatchAnswered
    /\ previous.response.status # 0 /\ ~previous.received.failed

\* C14 as stated: no poll changes the queue, and of two polls in a row of a
\* queue nobody wrote to, the second yields entries with the same id, level,
\* message, lambdaFunction and requestId as the first.
C14_AsStated ==
    /\ [][queue' = queue]_vars
    /\ [](TwoPolls => Untimed(Logs) = Untimed(previous.response.logs))

\* C14 amended: no poll changes the queue, and of two polls in a row of a
\* queue nobody wrote to, the second yields entries with the same id, level,
\* message, lambdaFunction and requestId as the first whenever the receive
\* call returns the same batch to both; the queue may return another batch,
\* and then the entries differ.
C14_Amended ==
    /\ [][queue' = queue]_vars
    /\ [](TwoPolls /\ Batch = previous.received.msgs =>
            /\ Untimed(Logs) = Untimed(previous.response.logs)
            /\ logsResponse.status = previous.response.status)

\* C14 witness: two polls at different times were given the same batch of
\* two, and the entries, alike in everything else, differ in a timestamp.
C14_Witness ==
    /\ TwoPolls
    /\ Batch = previous.received.msgs /\ Len(Batch) = 2 /\ Batch = queue
    /\ Len(Logs) = 2 /\ Logs # previous.response.logs
    /\ Untimed(Logs) = Untimed(previous.response.logs)

\* --------------------------------------------------------------- C15

\* C15: without a queue URL an answered GET /api/logs has made no receive
\* call and is success:true (status 200) with exactly two placeholder
\* entries, ids 1 and 2, the first of level INFO and the second of level WARN.
C15_MockWithoutQueueUrl ==
    (~queueUrl /\ logsResponse.status # 0) =>
        /\ received = NotReceived
        /\ logsResponse.status = 200 /\ logsResponse.success /\ logsResponse.hasLogs
        /\ Len(Logs) = 2
        /\ Logs[1].level = LevelINFO /\ Logs[2].level = LevelWARN
        /\ Logs[1].id = JStr(<< "1" >>) /\ Logs[2].id = JStr(<< "2" >>)

\* C15 witness: answered without a queue URL while the queue holds messages.
C15_Witness ==
    /\ ~queueUrl /\ logsResponse.status = 200
    /\ Len(queue) = MaxQueue
    /\ Len(Logs) = 2 /\ Logs[1].level = LevelINFO

\* --------------------------------------------------------------- C18

\* A step that is a POST /api/s3.
PostStep == s3Response'.op = "POST" /\ s3Vars' # s3Vars

\* C18: a POST puts the files one at a time in request order and stops at
\* the first put that fails. The puts made are those of the first k-1 files
\* (k the failing put): each of their keys holds an object afterwards, no
\* other key is written and nothing is removed. On a failure the response is
\* 500, success:false with a message and no files list; when every put
\* succeeds it is success:true with one {fileName, key} per file, in order,
\* key being uploads/<clock>-<fileName>.
C18_StopsAtFirstFailure ==
    [][PostStep =>
        LET u == lastUpload'
            res == s3Response'
        IN  /\ Len(u.results) <= Len(u.files)
            /\ \A i \in 1..Len(u.results) :
                 /\ u.results[i] =
                      [fileName |-> u.files[i].name,
                       key |-> UploadsPrefix \o NatToText(u.clock[i]) \o << "-" >> \o u.files[i].name]
                 /\ \E o \in bucket' : o.Key = u.results[i].key
            /\ \A o \in bucket' :
                 o \in bucket \/ \E i \in 1..Len(u.results) : o.Key = u.results[i].key
            /\ \A o \in bucket : \E o2 \in bucket' : o2.Key = o.Key
            /\ u.ok <=> Len(u.results) = Len(u.files) /\ res.success
            /\ u.ok => res.status = 200 /\ res.hasFiles /\ res.files = u.results
            /\ ~u.ok => /\ res.status = 500 /\ ~res.success /\ ~res.hasFiles
                        /\ Truthy(res.message)
    ]_vars

\* C18 witness: the second put of a POST of two files failed, and the object
\* of the first file is stored.
C18_Witness ==
    /\ s3Response.op = "POST" /\ s3Response.status = 500
    /\ Len(lastUpload.files) = 2 /\ Len(lastUpload.results) = 1
    /\ \E o \in bucket : o.Key = lastUpload.results[1].key

\* ------------------------------------------------------- ManageFilesView

\* How many handleDelete calls wait for their response at one time.
MaxDeleting == 2

\* useState<{ success, message } | null>: null
NoStatus == [present |-> FALSE, success |-> FALSE, message |-> << >>]

\* setActionStatus({ success, message })
ActionStatus(success, message) == [present |-> TRUE, success |-> success, message |-> message]

\* The buckets the view is opened on: empty, one upload, three uploads next
\* to an object of another application.
ManagedBuckets ==
    { {},
      { S3Object(UploadKey(0, << "a" >>), 5, 0) },
      { S3Object(UploadKey(0, << "a" >>), 5, 0), S3Object(UploadKey(0, << "b" >>), 0, 0),
        S3Object(UploadKey(1, << "a" >>), 3, 1), ForeignObject } }

\* fetchFiles after its awaits: fetch or json() rejected, or data is the
\* response of GET /api/s3.
AfterFetchFiles(files, rejected, data) ==
    IF rejected \/ ~data.success
    THEN [files |-> files,
          error |-> JStr(<< "F","a","i","l","e","d"," ","t","o"," ","f","e","t","c","h"," ","f","i","l","e","s"," ","f","r","o","m"," ","S","3","."," ","P","l","e","a","s","e"," ","t","r","y"," ","a","g","a","i","n"," ","l","a","t","e","r","." >>)]
    ELSE [files |-> data.files, error |-> JNull]

\* The render shows the table of files with its buttons.
TableShown == ~mfLoading /\ mfError = JNull /\ Len(mfFiles) # 0

\* The ids of the rows of the table.
RowIds == { mfFiles[i].id : i \in 1..Len(mfFiles) }

\* Mutant of handleDeleteSends: every click sends the request.
handleDeleteSends_FirstClick(confirm, fileId) == TRUE

\* handleDelete: whether the click goes past `if (deleteConfirm !== fileId)`.
handleDeleteSends(confirm, fileId) == confirm = JStr(fileId)

\* files.filter((file) => file.id !== fileId)
FilterOut(files, fileId) == SelectSeq(files, LAMBDA file : file.id # fileId)

\* The sequence s without its i-th element.
RemoveAt(s, i) == [k \in 1..(Len(s) - 1) |-> IF k < i THEN s[k] ELSE s[k + 1]]

\* useEffect at mount: fetchFiles, whose awaits nothing of the view can
\* interleave with (the table is not shown while loading).
FetchFiles ==
    /\ mfLoading
    /\ \E b \in ManagedBuckets, failed \in BOOLEAN, rejected \in BOOLEAN :
         \E a \in { AfterFetchFiles(mfFiles, rejected,
                                    S3GETResponse(failed, ListObjects(b, UploadsPrefix))) } :
            /\ mfFiles' = a.files
            /\ mfError' = a.error
    /\ mfLoading' = FALSE
    /\ UNCHANGED << selectedFile, deleteConfirm, actionStatus, deleting, clicked, deleted >>
    /\ UNCHANGED << logsVars, clsVars, s3Vars, viewVars >>

\* A click on the Delete button of the row of fileId: handleDelete up to its
\* return or its await, with the files of the render the click was made on.
ClickDelete(fileId) ==
    /\ TableShown
    /\ fileId \in RowIds
    /\ selectedFile # JStr(fileId)
    /\ clicked' = JStr(fileId)
    /\ IF handleDeleteSends(deleteConfirm, fileId)
       THEN /\ Len(deleting) < MaxDeleting
            /\ selectedFile' = JStr(fileId)
            /\ actionStatus' = NoStatus
            /\ deleting' = Append(deleting, [fileId |-> fileId, files |-> mfFiles])
            /\ UNCHANGED deleteConfirm
       ELSE /\ deleteConfirm' = JStr(fileId)
            /\ UNCHANGED << selectedFile, actionStatus, deleting >>
    /\ UNCHANGED << mfFiles, mfLoading, mfError, deleted >>
    /\ UNCHANGED << logsVars, clsVars, s3Vars, viewVars >>

\* The response to the i-th waiting handleDelete arrives: the rest of the
\* handler, with the files it captured when it was called.
SettleDelete(i) ==
    /\ i \in 1..Len(deleting)
    /\ \E failed \in BOOLEAN, rejected \in BOOLEAN :
         LET call == deleting[i]
             data == S3DELETEResponse(JStr(call.fileId), failed)
         IN  IF rejected \/ ~data.success
             THEN /\ actionStatus' = ActionStatus(FALSE, << "E","r","r","o","r"," ","d","e","l","e","t","i","n","g"," ","f","i","l","e","."," ","P","l","e","a","s","e"," ","t","r","y"," ","a","g","a","i","n","." >>)
                  /\ UNCHANGED << mfFiles, deleted >>
             ELSE /\ mfFiles' = FilterOut(call.files, call.fileId)
                  /\ actionStatus' = ActionStatus(TRUE, << "F","i","l","e"," ","d","e","l","e","t","e","d"," ","s","u","c","c","e","s","s","f","u","l","l","y" >>)
                  /\ deleted' = deleted \cup { call.fileId }
    /\ selectedFile' = JNull
    /\ deleteConfirm' = JNull
    /\ deleting' = RemoveAt(deleting, i)
    /\ clicked' = JNull
    /\ UNCHANGED << mfLoading, mfError >>
    /\ UNCHANGED << logsVars, clsVars, s3Vars, viewVars >>

\* A click on the Download button of the row of fileId: handleDownload, which
\* has no await.
ClickDownload(fileId) ==
    /\ TableShown
    /\ fileId \in RowIds
    /\ selectedFile # JStr(fileId)
    /\ \E threw \in BOOLEAN :
         actionStatus' = IF threw
                         THEN ActionStatus(FALSE, << "E","r","r","o","r"," ","d","o","w","n","l","o","a","d","i","n","g"," ","f","i","l","e","."," ","P","l","e","a","s","e"," ","t","r","y"," ","a","g","a","i","n","." >>)
                         ELSE ActionStatus(TRUE, << "F","i","l","e"," ","d","o","w","n","l","o","a","d"," ","i","n","i","t","i","a","t","e","d" >>)
    /\ selectedFile' = JNull
    /\ clicked' = JNull
    /\ UNCHANGED << mfFiles, mfLoading, mfError, deleteConfirm, deleting, deleted >>
    /\ UNCHANGED << logsVars, clsVars, s3Vars, viewVars >>

InitManage ==
    /\ LogsIdle
    /\ ClsIdle
    /\ S3Idle
    /\ ViewIdle
    /\ ManageIdle

NextManage ==
    \/ FetchFiles
    \/ \E fileId \in RowIds : ClickDelete(fileId)
    \/ \E i \in 1..Len(deleting) : SettleDelete(i)
    \/ \E fileId \in RowIds : ClickDownload(fileId)

SpecManage == InitManage /\ [][NextManage]_vars

\* ------------------------------------------------------ C16 and C17

\* A step that is a click on a Delete button.
DeleteClick == clicked' # JNull /\ manageVars' # manageVars

\* A step that sends a DELETE request; one that ends a delete attempt.
DeleteSent == Len(deleting') > Len(deleting)
DeleteEnded == Len(deleting') < Len(deleting)

\* C16: a DELETE request is sent only by a click on the Delete button of the
\* file that is the pending confirmation, and it is a request for that file; a
\* click on a file that is not the pending confirmation (a first click, or a
\* click on a different file) makes it the pending confirmation and sends
\* nothing; the end of a delete attempt, successful or failed, clears the
\* pending confirmation.
C16_ConfirmThenDelete ==
    [][ /\ DeleteSent =>
             /\ DeleteClick
             /\ deleteConfirm = clicked'
             /\ deleting' = Append(deleting, [fileId |-> clicked'.s, files |-> mfFiles])
        /\ (DeleteClick /\ deleteConfirm # clicked') =>
             /\ deleteConfirm' = clicked'
             /\ deleting' = deleting
        /\ (DeleteClick /\ deleteConfirm = clicked') => DeleteSent
        /\ DeleteEnded => deleteConfirm' = JNull
    ]_vars

\* C16 witness: a failed delete attempt has ended while another request is
\* waiting, and no confirmation is pending.
C16_Witness ==
    /\ actionStatus.present /\ ~actionStatus.success
    /\ deleted = {}
    /\ Len(deleting) = 1
    /\ deleteConfirm = JNull

\* C17: no file whose DELETE request has succeeded is in the displayed list.
C17_AsStated == \A i \in 1..Len(mfFiles) : mfFiles[i].id \notin deleted

====
